---- MODULE Spec2Model ----
(***************************************************************************)
(* Model of dashboard.py: one top-down run of the Streamlit script, from   *)
(* the price download to the Plotly chart, re-run on every interaction.    *)
(*                                                                         *)
(* Numbers.  A cell of a data frame is an extended rational <<n, d>>:      *)
(*   d > 0   the finite value n/d in lowest terms,                         *)
(*   <<1,0>> +inf,  <<-1,0>> -inf,  <<0,0>> NaN (pandas' missing marker).  *)
(* Arithmetic follows IEEE-754 on the special values and is exact on the   *)
(* finite ones (rounding of doubles is not modelled).  The std and 2std    *)
(* columns hold non-negative roots; a root is the record [sq |-> v] that   *)
(* stands for sqrt(v), so that comparisons with it are exact.              *)
(***************************************************************************)
EXTENDS Integers, Sequences, FiniteSets, TLC

\* ---- bounds of the model -------------------------------------------------
MaxTickers == 3
MaxRows == 3
MaxCells == 6
MaxPrice == 2

\* ---- extended rational arithmetic (numpy float64 semantics) --------------
NaN == <<0, 0>>
Inf == <<1, 0>>
NegInf == <<-1, 0>>
Zero == <<0, 1>>
One == <<1, 1>>

Abs(n) == IF n < 0 THEN -n ELSE n

Sign(n) == IF n < 0 THEN -1 ELSE IF n = 0 THEN 0 ELSE 1

RECURSIVE GCD(_, _)
GCD(a, b) == IF b = 0 THEN a ELSE GCD(b, a % b)

\* n/d in lowest terms, d # 0
Norm(n, d) ==
    LET s == Sign(d)
        g == GCD(Abs(n), Abs(d))
    IN  <<(s * n) \div g, (s * d) \div g>>

Num(k) == <<k, 1>>

isna(x) == x = NaN

IsInf(x) == x[2] = 0 /\ x[1] # 0

IsFinite(x) == x[2] > 0

Add(a, b) ==
    IF isna(a) \/ isna(b) THEN NaN
    ELSE IF IsInf(a) /\ IsInf(b) THEN (IF a = b THEN a ELSE NaN)
    ELSE IF IsInf(a) THEN a
    ELSE IF IsInf(b) THEN b
    ELSE Norm(a[1] * b[2] + b[1] * a[2], a[2] * b[2])

Neg(a) == <<-a[1], a[2]>>

Sub(a, b) == Add(a, Neg(b))

Mul(a, b) ==
    IF isna(a) \/ isna(b) THEN NaN
    ELSE IF IsInf(a) \/ IsInf(b)
         THEN (IF a[1] = 0 \/ b[1] = 0 THEN NaN
               ELSE <<Sign(a[1]) * Sign(b[1]), 0>>)
    ELSE Norm(a[1] * b[1], a[2] * b[2])

\* float division: x/0 is +-inf, 0/0 and inf/inf are NaN, no exception
Div(a, b) ==
    IF isna(a) \/ isna(b) THEN NaN
    ELSE IF IsInf(a) /\ IsInf(b) THEN NaN
    ELSE IF IsInf(a) THEN <<a[1] * (IF b[1] < 0 THEN -1 ELSE 1), 0>>
    ELSE IF IsInf(b) THEN Zero
    ELSE IF b[1] = 0 THEN (IF a[1] = 0 THEN NaN ELSE <<Sign(a[1]), 0>>)
    ELSE Norm(a[1] * b[2], a[2] * b[1])

\* a < b and a > b on floats: every comparison with NaN is false
Lt(a, b) ==
    /\ ~isna(a)
    /\ ~isna(b)
    /\ IF IsInf(a) /\ IsInf(b) THEN a[1] < b[1]
       ELSE IF IsInf(a) THEN a[1] < 0
       ELSE IF IsInf(b) THEN b[1] > 0
       ELSE a[1] * b[2] < b[1] * a[2]

Gt(a, b) == Lt(b, a)

\* ---- roots: [sq |-> v] stands for sqrt(v), v >= 0 or NaN -----------------
Sqrt(v) == [sq |-> v]

\* sqrt(v) / 2 in place of 2 * sqrt(v)
HalfRoot(s) == [sq |-> Div(s.sq, Num(4))]

\* 2 * sqrt(v) = sqrt(4 v); 2 * NaN = NaN
TwiceRoot(s) == [sq |-> Mul(Num(4), s.sq)]

\* x > sqrt(v) on floats
GtRoot(x, s) ==
    /\ ~isna(x)
    /\ ~isna(s.sq)
    /\ Gt(x, Zero)
    /\ Gt(Mul(x, x), s.sq)

\* ---- pandas series and frames --------------------------------------------
\* A frame is [columns: sequence of column names, nrows, data: name -> rows].
AllSymbols == <<"A.NS", "B.NS", "C.NS", "D.NS", "E.NS">>

FillMethods == {"pad", "none"}

empty(df) == df.nrows = 0 \/ Len(df.columns) = 0

ColSet(df) == {df.columns[j] : j \in 1..Len(df.columns)}

\* DataFrame.drop(columns=names)
drop(df, names) ==
    LET keep == SelectSeq(df.columns, LAMBDA c : c \notin names)
    IN  [columns |-> keep,
         nrows |-> df.nrows,
         data |-> [c \in {keep[j] : j \in 1..Len(keep)} |-> df.data[c]]]

\* df[name] = values  (a new column goes last, an existing one is replaced)
setcol(df, name, values) ==
    [columns |-> IF name \in ColSet(df) THEN df.columns
                 ELSE Append(df.columns, name),
     nrows |-> df.nrows,
     data |-> [c \in ColSet(df) \cup {name} |->
                 IF c = name THEN values ELSE df.data[c]]]

\* Series.ffill(): a missing value takes the last valid value before it
RECURSIVE ffill_at(_, _)
ffill_at(s, t) ==
    IF ~isna(s[t]) THEN s[t]
    ELSE IF t = 1 THEN NaN
    ELSE ffill_at(s, t - 1)

ffill(s) == [t \in 1..Len(s) |-> ffill_at(s, t)]

\* pct_change that never forward-fills, whatever the installed pandas
pct_change_nopad(s, fill) ==
    [t \in 1..Len(s) |->
       IF t = 1 THEN NaN ELSE Sub(Div(s[t], s[t - 1]), One)]

\* Series.pct_change(): data / data.shift(1) - 1, where data is the series
\* forward-filled when the installed pandas pads by default (pandas < 3)
\* and the series itself when it does not (pandas >= 3).
pct_change(s, fill) ==
    LET filled == IF fill = "pad" THEN ffill(s) ELSE s
    IN  [t \in 1..Len(s) |->
           IF t = 1 THEN NaN
           ELSE Sub(Div(filled[t], filled[t - 1]), One)]

\* Series.fillna(0): only NaN is replaced, inf is kept
fillna(s) == [t \in 1..Len(s) |-> IF isna(s[t]) THEN Zero ELSE s[t]]

\* Series.cumprod(), skipna: a NaN input counts as 1 and yields NaN there
RECURSIVE cumprod_at(_, _)
cumprod_at(s, t) ==
    LET v == IF isna(s[t]) THEN One ELSE s[t]
    IN  IF t = 1 THEN v ELSE Mul(cumprod_at(s, t - 1), v)

cumprod(s) ==
    [t \in 1..Len(s) |-> IF isna(s[t]) THEN NaN ELSE cumprod_at(s, t)]

\* the growth factor in percent, without the "- 1"
total_pct_growth(s) ==
    LET grow == cumprod([t \in 1..Len(s) |-> Add(One, s[t])])
    IN  [t \in 1..Len(s) |-> Mul(grow[t], Num(100))]

\* ((1 + pct).cumprod() - 1) * 100
total_pct(s) ==
    LET grow == cumprod([t \in 1..Len(s) |-> Add(One, s[t])])
    IN  [t \in 1..Len(s) |-> Mul(Sub(grow[t], One), Num(100))]

\* ---- row-wise statistics (axis=1, skipna=True) ---------------------------
\* the row r of df as a sequence in column order
Row(df, r) == [j \in 1..Len(df.columns) |-> df.data[df.columns[j]][r]]

notna(vals) == SelectSeq(vals, LAMBDA x : ~isna(x))

RECURSIVE SumSeq(_)
SumSeq(vals) ==
    IF vals = <<>> THEN Zero ELSE Add(Head(vals), SumSeq(Tail(vals)))

\* nanmean: NaN cells are skipped, a row of NaN only gives NaN
mean(vals) ==
    LET v == notna(vals)
    IN  IF Len(v) = 0 THEN NaN ELSE Div(SumSeq(v), Num(Len(v)))

\* nanmedian: middle of the sorted valid values, mean of the two middles
median(vals) ==
    LET v == SortSeq(notna(vals), Lt)
        n == Len(v)
    IN  IF n = 0 THEN NaN
        ELSE IF n % 2 = 1 THEN v[(n + 1) \div 2]
        ELSE Div(Add(v[n \div 2], v[n \div 2 + 1]), Num(2))

\* nanvar with the given ddof: sum((avg - x)^2) / (count - ddof),
\* NaN when count - ddof <= 0
var(vals, ddof) ==
    LET v == notna(vals)
        n == Len(v)
        avg == Div(SumSeq(v), Num(n))
        sqr == [j \in 1..n |-> Mul(Sub(avg, v[j]), Sub(avg, v[j]))]
    IN  IF n - ddof <= 0 THEN NaN ELSE Div(SumSeq(sqr), Num(n - ddof))

\* the deviation with ddof=0
std_population(vals) == Sqrt(var(vals, 0))

\* DataFrame.std(axis=1): pandas' default is ddof=1 (sample deviation)
std(vals) == Sqrt(var(vals, 1))

mean_axis1(df) == [r \in 1..df.nrows |-> mean(Row(df, r))]

median_axis1(df) == [r \in 1..df.nrows |-> median(Row(df, r))]

std_axis1(df) == [r \in 1..df.nrows |-> std(Row(df, r))]

\* ---- the script -----------------------------------------------------------
VARIABLES
    pc,             \* position of the run in the script
    fill_method,    \* pct_change's default fill of the installed pandas
    price_df,       \* yf.download(...)["Close"]
    pct_df,         \* daily returns
    total_pct_df,   \* cumulative % returns, then with the statistics columns
    warning,        \* st.warning was shown
    table_shown,    \* st.dataframe(total_pct_df.tail(50)) was shown
    filter_option,  \* value of the "Show stocks" radio
    col_idx,        \* position of the loop over stock_cols
    fig,            \* traces added to the figure, in order
    chart_shown     \* st.plotly_chart(fig) was called

vars == <<pc, fill_method, price_df, pct_df, total_pct_df, warning,
          table_shown, filter_option, col_idx, fig, chart_shown>>

NoFrame == [columns |-> <<>>, nrows |-> 0, data |-> <<>>]

FilterOptions ==
    <<"All stocks",
      "Above mean (last value)",
      "Above median (last value)",
      "Above std (last value)",
      "Above 2 std (last value)">>

stats_cols == <<"mean_pct_chg", "median_pct_change", "std", "2std">>

StatsSet == {stats_cols[j] : j \in 1..Len(stats_cols)}

stock_cols(df) == SelectSeq(df.columns, LAMBDA c : c \notin StatsSet)

\* total_pct_df.iloc[-1]
last_vals(df) == [c \in ColSet(df) |-> df.data[c][df.nrows]]

\* a closing price: missing, or a non-negative amount
Prices == {NaN} \cup {Num(p) : p \in 0..MaxPrice}

\* the frames the price source can return for a group of n symbols:
\* one column per symbol, r trading days (r = 0: no data in the range)
PriceFrames ==
    UNION {
      { [columns |-> SubSeq(AllSymbols, 1, n),
         nrows |-> r,
         data |-> [c \in {AllSymbols[j] : j \in 1..n} |-> m[c]]] :
        m \in [{AllSymbols[j] : j \in 1..n} -> [1..r -> Prices]] } :
      <<n, r>> \in {x \in (1..MaxTickers) \X (0..MaxRows) :
                      x[1] * x[2] <= MaxCells} }

Init ==
    /\ pc = "download"
    /\ fill_method \in FillMethods
    /\ price_df = NoFrame
    /\ pct_df = NoFrame
    /\ total_pct_df = NoFrame
    /\ warning = FALSE
    /\ table_shown = FALSE
    /\ filter_option = "All stocks"
    /\ col_idx = 0
    /\ fig = <<>>
    /\ chart_shown = FALSE

\* lines 62-67
Download ==
    /\ pc = "download"
    /\ price_df' \in PriceFrames
    /\ pc' = "check"
    /\ UNCHANGED <<fill_method, pct_df, total_pct_df, warning, table_shown,
                   filter_option, col_idx, fig, chart_shown>>

\* line 76
DailyReturns(df, fill) ==
    [columns |-> df.columns,
     nrows |-> df.nrows,
     data |-> [c \in ColSet(df) |-> fillna(pct_change(df.data[c], fill))]]

\* line 77
CumulativeReturns(df) ==
    [columns |-> df.columns,
     nrows |-> df.nrows,
     data |-> [c \in ColSet(df) |-> total_pct(df.data[c])]]

\* the warning without st.stop(): the script runs on with the empty frame
NoData_NoStop ==
    /\ pc = "check"
    /\ empty(price_df)
    /\ warning' = TRUE
    /\ pct_df' = DailyReturns(price_df, fill_method)
    /\ total_pct_df' = CumulativeReturns(pct_df')
    /\ pc' = "stats"
    /\ UNCHANGED <<fill_method, price_df, table_shown, filter_option,
                   col_idx, fig, chart_shown>>

\* lines 69-71: warning and st.stop()
NoData ==
    /\ pc = "check"
    /\ empty(price_df)
    /\ warning' = TRUE
    /\ pc' = "stopped"
    /\ UNCHANGED <<fill_method, price_df, pct_df, total_pct_df, table_shown,
                   filter_option, col_idx, fig, chart_shown>>

\* lines 76-77
Returns ==
    /\ pc = "check"
    /\ ~empty(price_df)
    /\ pct_df' = DailyReturns(price_df, fill_method)
    /\ total_pct_df' = CumulativeReturns(pct_df')
    /\ pc' = "stats"
    /\ UNCHANGED <<fill_method, price_df, warning, table_shown,
                   filter_option, col_idx, fig, chart_shown>>

\* lines 79-88: the four columns, each appended to the frame in turn
WithMean(df) == setcol(df, "mean_pct_chg", mean_axis1(df))

\* the median taken without dropping the mean column
WithMedian_nodrop(df) == setcol(df, "median_pct_change", median_axis1(df))

WithMedian(df) ==
    setcol(df, "median_pct_change", median_axis1(drop(df, {"mean_pct_chg"})))

WithStd(df) ==
    setcol(df, "std",
           std_axis1(drop(df, {"mean_pct_chg", "median_pct_change"})))

\* 2std as a copy of std
With2Std_copy(df) == setcol(df, "2std", df.data["std"])

With2Std(df) ==
    setcol(df, "2std", [r \in 1..df.nrows |-> TwiceRoot(df.data["std"][r])])

Annotate(df) == With2Std(WithStd(WithMedian(WithMean(df))))

Statistics ==
    /\ pc = "stats"
    /\ total_pct_df' = Annotate(total_pct_df)
    /\ pc' = "table"
    /\ UNCHANGED <<fill_method, price_df, pct_df, warning, table_shown,
                   filter_option, col_idx, fig, chart_shown>>

\* lines 91-92: the checkbox decides whether the table is displayed
Table ==
    /\ pc = "table"
    /\ \E checked \in BOOLEAN : table_shown' = checked
    /\ pc' = "filter"
    /\ UNCHANGED <<fill_method, price_df, pct_df, total_pct_df, warning,
                   filter_option, col_idx, fig, chart_shown>>

\* lines 99-118: the radio's value, and an empty figure
Filter ==
    /\ pc = "filter"
    /\ \E k \in 1..Len(FilterOptions) : filter_option' = FilterOptions[k]
    /\ fig' = <<>>
    /\ col_idx' = 1
    /\ pc' = "stocks"
    /\ UNCHANGED <<fill_method, price_df, pct_df, total_pct_df, warning,
                   table_shown, chart_shown>>

\* the mean branch with >= in place of >
show_ge(last, col, option) ==
    IF option = "Above mean (last value)"
    THEN ~isna(last[col]) /\ ~isna(last["mean_pct_chg"])
         /\ ~Lt(last[col], last["mean_pct_chg"])
    ELSE IF option = "Above median (last value)"
    THEN Gt(last[col], last["median_pct_change"])
    ELSE IF option = "Above std (last value)"
    THEN GtRoot(last[col], last["std"])
    ELSE IF option = "Above 2 std (last value)"
    THEN GtRoot(last[col], last["2std"])
    ELSE TRUE

\* lines 122-131: show, for one column
show(last, col, option) ==
    IF option = "Above mean (last value)"
    THEN Gt(last[col], last["mean_pct_chg"])
    ELSE IF option = "Above median (last value)"
    THEN Gt(last[col], last["median_pct_change"])
    ELSE IF option = "Above std (last value)"
    THEN GtRoot(last[col], last["std"])
    ELSE IF option = "Above 2 std (last value)"
    THEN GtRoot(last[col], last["2std"])
    ELSE TRUE

StockTrace(col) == [name |-> col, y |-> col, dash |-> "solid"]

\* lines 121-141: one iteration of the loop over stock_cols
StockLine ==
    /\ pc = "stocks"
    /\ col_idx <= Len(stock_cols(total_pct_df))
    /\ LET col == stock_cols(total_pct_df)[col_idx]
       IN  fig' = IF show(last_vals(total_pct_df), col, filter_option)
                  THEN Append(fig, StockTrace(col))
                  ELSE fig
    /\ col_idx' = col_idx + 1
    /\ UNCHANGED <<pc, fill_method, price_df, pct_df, total_pct_df, warning,
                   table_shown, filter_option, chart_shown>>

RefNames == <<"Mean", "Median", "Std Dev", "2 Std Dev">>

\* the std line added before the median line
RefTrace_swapped(k) ==
    LET j == IF k = 2 THEN 3 ELSE IF k = 3 THEN 2 ELSE k
    IN  [name |-> RefNames[j], y |-> stats_cols[j], dash |-> "dot"]

RefTrace(k) == [name |-> RefNames[k], y |-> stats_cols[k], dash |-> "dot"]

\* lines 146-151
RefMean ==
    /\ pc = "stocks"
    /\ col_idx > Len(stock_cols(total_pct_df))
    /\ fig' = Append(fig, RefTrace(1))
    /\ pc' = "median"
    /\ UNCHANGED <<fill_method, price_df, pct_df, total_pct_df, warning,
                   table_shown, filter_option, col_idx, chart_shown>>

\* lines 153-158
RefMedian ==
    /\ pc = "median"
    /\ fig' = Append(fig, RefTrace(2))
    /\ pc' = "std"
    /\ UNCHANGED <<fill_method, price_df, pct_df, total_pct_df, warning,
                   table_shown, filter_option, col_idx, chart_shown>>

\* lines 160-165
RefStd ==
    /\ pc = "std"
    /\ fig' = Append(fig, RefTrace(3))
    /\ pc' = "2std"
    /\ UNCHANGED <<fill_method, price_df, pct_df, total_pct_df, warning,
                   table_shown, filter_option, col_idx, chart_shown>>

\* lines 167-172
Ref2Std ==
    /\ pc = "2std"
    /\ fig' = Append(fig, RefTrace(4))
    /\ pc' = "plot"
    /\ UNCHANGED <<fill_method, price_df, pct_df, total_pct_df, warning,
                   table_shown, filter_option, col_idx, chart_shown>>

\* lines 177-185
Plot ==
    /\ pc = "plot"
    /\ chart_shown' = TRUE
    /\ pc' = "done"
    /\ UNCHANGED <<fill_method, price_df, pct_df, total_pct_df, warning,
                   table_shown, filter_option, col_idx, fig>>

\* Streamlit runs the script again from the top on the next interaction
Rerun ==
    /\ pc \in {"done", "stopped"}
    /\ pc' = "download"
    /\ price_df' = NoFrame
    /\ pct_df' = NoFrame
    /\ total_pct_df' = NoFrame
    /\ warning' = FALSE
    /\ table_shown' = FALSE
    /\ filter_option' = "All stocks"
    /\ col_idx' = 0
    /\ fig' = <<>>
    /\ chart_shown' = FALSE
    /\ UNCHANGED fill_method

Next ==
    \/ Download
    \/ NoData
    \/ Returns
    \/ Statistics
    \/ Table
    \/ Filter
    \/ StockLine
    \/ RefMean
    \/ RefMedian
    \/ RefStd
    \/ Ref2Std
    \/ Plot
    \/ Rerun

Spec == Init /\ [][Next]_vars

\* ---- properties -----------------------------------------------------------
AfterReturns == pc \notin {"download", "check", "stopped"}

AfterStats == AfterReturns /\ pc # "stats"

\* the returns have just been computed; pct_df is not assigned again
\* before the next run
ReturnsComputed == pc = "stats"

\* the statistics columns have just been appended; total_pct_df is not
\* assigned again before the next run
StatsAppended == pc = "table"

AfterLoop ==
    \/ pc \in {"median", "std", "2std", "plot", "done"}
    \/ pc = "stocks" /\ col_idx > Len(price_df.columns)

Tickers == {price_df.columns[j] : j \in 1..Len(price_df.columns)}

Rows == 1..price_df.nrows

present(x) == x # NaN

\* the ticker values of row r of the cumulative returns, missing ones left out
TickerVals(r) ==
    SelectSeq([j \in 1..Len(price_df.columns) |->
                 total_pct_df.data[price_df.columns[j]][r]],
              LAMBDA x : x # NaN)

\* C1: whenever the downloaded price matrix is empty, the run is at the
\* emptiness check or stopped, a stopped run has shown the warning, neither
\* the table nor the chart nor any trace has been produced, and the only
\* step the run takes from the check is the one that warns and stops.
C1_NoDataHalts ==
    /\ [](pc # "download" /\ price_df.nrows = 0 =>
            /\ pc \in {"check", "stopped"}
            /\ pc = "stopped" => warning
            /\ ~table_shown
            /\ ~chart_shown
            /\ fig = <<>>)
    /\ [][pc = "check" /\ price_df.nrows = 0 =>
            pc' = "stopped" /\ warning']_vars
    /\ [][pc = "stopped" => pc' = "download"]_vars

C1_Witness ==
    /\ pc = "stopped"
    /\ price_df.nrows = 0
    /\ Len(price_df.columns) = MaxTickers
    /\ warning

\* sum of squares and square of the sum, for the textbook variance formula
RECURSIVE SumSq(_)
SumSq(vals) ==
    IF vals = <<>> THEN Zero
    ELSE Add(Mul(Head(vals), Head(vals)), SumSq(Tail(vals)))

AnyInf(vals) == \E j \in 1..Len(vals) : vals[j][2] = 0

\* (n * sum(x^2) - sum(x)^2) / (n * divisor)
VarianceBy(vals, divisor) ==
    LET n == Len(vals)
    IN  Div(Sub(Mul(Num(n), SumSq(vals)), Mul(SumSeq(vals), SumSeq(vals))),
            Num(n * divisor))

C3_NoInfNoNaN ==
    /\ AfterReturns =>
         \A c \in Tickers : \A t \in Rows :
           /\ t > 1 /\ price_df.data[c][t - 1] \in {NaN, Zero} =>
                pct_df.data[c][t] = Zero
           /\ IsFinite(pct_df.data[c][t])
           /\ IsFinite(total_pct_df.data[c][t])
    /\ AfterStats =>
         \A t \in Rows :
           /\ IsFinite(total_pct_df.data["mean_pct_chg"][t])
           /\ IsFinite(total_pct_df.data["median_pct_change"][t])
           /\ IsFinite(total_pct_df.data["std"][t].sq)
           /\ IsFinite(total_pct_df.data["2std"][t].sq)

\* the change from price b to price a as a float quotient: a/b - 1
Change(a, b) ==
    IF b[1] # 0 THEN Norm(a[1] * b[2] - b[1] * a[2], a[2] * b[1])
    ELSE IF a[1] = 0 THEN Zero
    ELSE Inf

\* the last date before t with a price, 0 when there is none
LastPresentBefore(s, t) ==
    LET ks == {k \in 1..(t - 1) : present(s[k])}
    IN  IF ks = {} THEN 0 ELSE CHOOSE k \in ks : \A j \in ks : j <= k

C5_FirstRowZero ==
    AfterReturns => \A c \in Tickers : total_pct_df.data[c][1] = Zero

\* three tickers whose first prices are missing, zero and positive
C5_Witness ==
    /\ AfterReturns
    /\ Len(price_df.columns) = 3
    /\ price_df.nrows = 2
    /\ price_df.data["A.NS"][1] = NaN
    /\ price_df.data["B.NS"][1] = Zero
    /\ price_df.data["C.NS"][1] = One
    /\ \A c \in Tickers : total_pct_df.data[c][1] = Zero

\* the tickers a mode selects, from the last row alone
Above(last, option) ==
    LET tick == DOMAIN last \ StatsSet
    IN  CASE option = "All stocks" -> tick
          [] option = "Above mean (last value)" ->
               {c \in tick : Lt(last["mean_pct_chg"], last[c])}
          [] option = "Above median (last value)" ->
               {c \in tick : Lt(last["median_pct_change"], last[c])}
          [] option = "Above std (last value)" ->
               {c \in tick : GtRoot(last[c], last["std"])}
          [] option = "Above 2 std (last value)" ->
               {c \in tick : GtRoot(last[c], last["2std"])}

StockTraces == SelectSeq(fig, LAMBDA tr : tr.dash = "solid")

\* C6: when the loop over the stock columns has ended, the ticker series in
\* the figure are exactly the tickers the mode selects from the last row
\* (all of them for 'All stocks', otherwise those strictly above the mode's
\* statistic), each once and in column order; while the loop runs, they are
\* the selected tickers among the columns already visited.
C6_FilterByLastRow ==
    pc \in {"stocks", "median", "std", "2std", "plot", "done"} =>
      LET sel == Above(last_vals(total_pct_df), filter_option)
          done == SubSeq(price_df.columns, 1, col_idx - 1)
          want == SelectSeq(done, LAMBDA c : c \in sel)
      IN  /\ Len(StockTraces) = Len(want)
          /\ \A k \in 1..Len(want) :
               StockTraces[k].name = want[k] /\ StockTraces[k].y = want[k]
          /\ AfterLoop => col_idx = Len(price_df.columns) + 1

\* 'Above mean' with a tie: the last returns are 100, -100 and 0, the mean
\* is 0, and only the first ticker is shown
C6_Witness ==
    /\ pc = "done"
    /\ filter_option = "Above mean (last value)"
    /\ Len(price_df.columns) = 3
    /\ last_vals(total_pct_df)["mean_pct_chg"] = Zero
    /\ last_vals(total_pct_df)["A.NS"] = Num(100)
    /\ last_vals(total_pct_df)["C.NS"] = Zero
    /\ Len(fig) = 5
    /\ fig[1].name = "A.NS"

\* C7: once the last reference line is added, the figure ends with the four
\* statistic series Mean, Median, Std Dev, 2 Std Dev, in that order and
\* drawn from the columns mean_pct_chg, median_pct_change, std, 2std; every
\* trace before them is a ticker series of a ticker column, so each
\* statistic is rendered exactly once and never as a ticker series; and
\* while the reference lines are being added they follow the ticker series
\* in the same order.
C7_StatsAfterTickers ==
    LET n == Len(fig)
        refs == CASE pc = "median" -> 1
                  [] pc = "std" -> 2
                  [] pc = "2std" -> 3
                  [] pc \in {"plot", "done"} -> 4
                  [] OTHER -> 0
    IN  /\ pc \in {"stocks", "median", "std", "2std", "plot", "done"} =>
          /\ n >= refs
          /\ \A k \in 1..refs :
               fig[n - refs + k] =
                 [name |-> RefNames[k], y |-> stats_cols[k], dash |-> "dot"]
          /\ \A k \in 1..(n - refs) :
               /\ fig[k].dash = "solid"
               /\ fig[k].y \in Tickers
               /\ fig[k].y \notin StatsSet
        /\ chart_shown => pc = "done" /\ refs = 4

\* a mode other than 'All stocks' that shows no ticker: the chart has the
\* four statistic series only
C7_Witness ==
    /\ pc = "done"
    /\ chart_shown
    /\ filter_option = "Above 2 std (last value)"
    /\ Len(price_df.columns) = 3
    /\ Len(fig) = 4
    /\ fig[4].name = "2 Std Dev"

\* the cumulative returns of the tickers alone
TickerFrame == drop(total_pct_df, StatsSet)

\* C8: in every row the mean, median and std columns equal the mean, median
\* and standard deviation of the ticker columns alone, and 2std is twice
\* that deviation: no derived column is an input to a statistic.
C8_StatsOverTickersOnly ==
    StatsAppended =>
      /\ TickerFrame.columns = price_df.columns
      /\ \A r \in Rows :
           /\ total_pct_df.data["mean_pct_chg"][r] = mean(Row(TickerFrame, r))
           /\ total_pct_df.data["median_pct_change"][r] =
                median(Row(TickerFrame, r))
           /\ total_pct_df.data["std"][r] = std(Row(TickerFrame, r))
           /\ total_pct_df.data["2std"][r] =
                TwiceRoot(std(Row(TickerFrame, r)))

\* last returns 100, 100, 0: the median of the tickers is 100, where the
\* median taken with the mean column (200/3) included would be 250/3
C8_Witness ==
    /\ AfterStats
    /\ Len(price_df.columns) = 3
    /\ price_df.nrows = 2
    /\ Row(TickerFrame, 2) = <<Num(100), Num(100), Zero>>
    /\ total_pct_df.data["median_pct_change"][2] = Num(100)
    /\ total_pct_df.data["mean_pct_chg"][2] = <<200, 3>>

\* C9: in every row the 2std column is exactly twice the std column of the
\* same row (as squares: four times), NaN where std is NaN.
C9_TwoStdIsTwiceStd ==
    StatsAppended =>
      \A r \in Rows :
        LET v == total_pct_df.data["std"][r].sq
            w == total_pct_df.data["2std"][r].sq
        IN  IF v = NaN THEN w = NaN
            ELSE /\ w[2] > 0
                 /\ w[1] * v[2] = 4 * v[1] * w[2]

\* a row whose std is positive: variance 5000, so 2std squared is 20000
C9_Witness ==
    /\ AfterStats
    /\ price_df.nrows = 2
    /\ total_pct_df.data["std"][2].sq = Num(5000)
    /\ total_pct_df.data["2std"][2].sq = Num(20000)

\* C10: the tickers above 2std in the last row are among those above std,
\* and a ticker whose last cumulative return is zero, negative or missing
\* is in neither set.
C10_Above2StdWithinAboveStd ==
    StatsAppended =>
      LET last == last_vals(total_pct_df)
          one == Above(last, "Above std (last value)")
          two == Above(last, "Above 2 std (last value)")
      IN  /\ two \subseteq one
          /\ \A c \in Tickers : ~Gt(last[c], Zero) => c \notin one \cup two

\* last returns 100 and 0: std is about 70.7, so the first ticker is above
\* std and not above 2std
C10_Witness ==
    /\ AfterStats
    /\ Len(price_df.columns) = 2
    /\ last_vals(total_pct_df)["A.NS"] = Num(100)
    /\ last_vals(total_pct_df)["B.NS"] = Zero
    /\ Above(last_vals(total_pct_df), "Above std (last value)") = {"A.NS"}
    /\ Above(last_vals(total_pct_df), "Above 2 std (last value)") = {}

====
